---- MODULE Spec2Model ----
(***************************************************************************)
(* Package / pallet state-transition engine of the warehouse management    *)
(* system: the induct and stow validation rules (DESIGN.md section 7), the *)
(* optimistic-locking conditional write (ADR-003) and the transition       *)
(* coordinator that drives them (spec section 4.2), run by concurrent       *)
(* callers against one shared entity store.                                *)
(***************************************************************************)
EXTENDS Integers, Sequences, FiniteSets, TLC

\* ------------------------------------------------------------------ bounds

\* Timestamps a client supplies are 1..MaxTime; NoTime stands for null and for
\* "argument absent"; Now, the server clock's reading (new Date()), is later
\* than any of them.
MaxTime == 1
\* Longest inputs list handed to one inductPackages call.
MaxBatch == 3
\* Longest packageIds list handed to one stow call.
MaxLen == 2

NoTime == 0
Times == 1..MaxTime
OptTimes == {NoTime} \cup Times
Now == MaxTime + 1

\* Other writers stop touching a row once its version has reached MaxVersion.
MaxVersion == 4
\* One conditional-write attempt plus one bounded retry (spec 4.2).
MaxAttempts == 2

\* ------------------------------------------------------------ identifiers

\* Concurrent request handlers (one call path per incoming request).
Callers == {"c1", "c2"}

\* Seeded rows (seed.ts: packages PKG-001.. in PENDING state, warehouses).
Packages == {"PKG-001", "PKG-002"}
MissingPackage == "PKG-404"
PackageIds == Packages \cup {MissingPackage}

Warehouses == {"WH-001"}
MissingWarehouse == "WH-404"
WarehouseIds == Warehouses \cup {MissingWarehouse}

PalletIds == {"PLT-001", "PLT-002"}

\* SQL NULL for a string column, and findById's "no row".
Null == "null"
NoRow == [status |-> "ABSENT", palletId |-> Null, inductedAt |-> NoTime,
          stowedAt |-> NoTime, version |-> 0]

\* enum PackageStatus, in workflow order.
PackageStatus == <<"PENDING", "INDUCTED", "STOWED", "STAGED", "PICKED">>

\* enum ErrorCode.
ErrorCode == {"NOT_FOUND", "INVALID_STATE", "ALREADY_EXISTS",
              "VALIDATION_FAILED", "CONFLICT"}

Rank(s) == CHOOSE i \in 1..Len(PackageStatus) : PackageStatus[i] = s

\* ------------------------------------------------------------------ state

VARIABLES
    packages,   \* the packages table: id -> row
    pallets,    \* ids of the rows of the pallets table
    call        \* per caller: the call in progress or last returned

vars == <<packages, pallets, call>>

\* A pre-seeded package row: PENDING, version 0, nothing else set.
SeedPackage == [status |-> "PENDING", palletId |-> Null, inductedAt |-> NoTime,
                stowedAt |-> NoTime, version |-> 0]

\* Pallet.packages of a result that carries no pallet.
NoSnapshot == [p \in {} |-> SeedPackage]

NoResult == [success |-> FALSE, errors |-> <<>>, written |-> {},
             attempts |-> 0, fault |-> FALSE, pallet |-> NoSnapshot]
Fault == [success |-> FALSE, errors |-> <<>>, written |-> {},
          attempts |-> 0, fault |-> TRUE, pallet |-> NoSnapshot]

\* The health of a call that is no health check.
NoHealth == [rejected |-> FALSE, key |-> Null, status |-> Null, message |-> Null]
\* The probe of a call that has run none.
NoProbe == [kind |-> "none", message |-> Null]

IdleCall == [op |-> "none", pc |-> "idle", packageId |-> Null,
             warehouseId |-> Null, palletId |-> Null, packageIds |-> <<>>,
             at |-> NoTime, idx |-> 0, attempt |-> 0, expected |-> 0,
             todo |-> <<>>, written |-> {}, again |-> FALSE, first |-> FALSE,
             items |-> <<>>, results |-> <<>>, successCount |-> 0,
             failureCount |-> 0, result |-> NoResult,
             key |-> Null, probe |-> NoProbe, health |-> NoHealth]

Init ==
    /\ packages = [p \in Packages |-> SeedPackage]
    /\ pallets = {}
    /\ call = [c \in Callers |-> IdleCall]

\* ------------------------------------------------------------ entity store

\* packageRepo.findById / warehouseRepo.findById / palletRepo.findById
findPackage(id) == IF id \in Packages THEN packages[id] ELSE NoRow
warehouseExists(id) == id \in Warehouses
palletExists(id) == id \in pallets

\* Pallet.packages: the rows of table `rows` whose pallet_id is plt.
palletPackages(rows, plt) ==
    [p \in {q \in Packages : rows[q].palletId = plt} |-> rows[p]]

\* rowsAffected with the WHERE clause's version test left out.
rowsAffected_NoVersionTest(id, expectedVersion) ==
    IF id \in Packages THEN 1 ELSE 0

\* UPDATE packages SET ..., version = version + 1
\*   WHERE id = ? AND version = ?   -- number of rows affected
rowsAffected(id, expectedVersion) ==
    IF id \in Packages /\ packages[id].version = expectedVersion THEN 1 ELSE 0

\* updateWithVersion with `version = version + 1` missing from the SET clause.
updateWithVersion_NoIncrement(id, data, expectedVersion) ==
    IF id \in Packages /\ packages[id].version = expectedVersion
    THEN [packages EXCEPT ![id] =
            [f \in DOMAIN @ |-> IF f \in DOMAIN data THEN data[f] ELSE @[f]]]
    ELSE packages

\* patched with pallet_id missing from the SET clause.
patched_NoPalletId(row, data) ==
    [f \in DOMAIN row |->
        IF f \in DOMAIN data /\ f # "palletId" THEN data[f] ELSE row[f]]

\* The row with the columns named in `data` set and the others kept.
patched(row, data) ==
    [f \in DOMAIN row |-> IF f \in DOMAIN data THEN data[f] ELSE row[f]]

\* The table after updateWithVersion(id, data, expectedVersion): the SET clause
\* and version = version + 1 on the row the WHERE clause matches, if any.
updateWithVersion(id, data, expectedVersion) ==
    IF rowsAffected(id, expectedVersion) = 1
    THEN [packages EXCEPT ![id] =
            [patched(@, data) EXCEPT !.version = packages[id].version + 1]]
    ELSE packages

\* ---------------------------------------------------------- state machine

Reject(code, message) ==
    [valid |-> FALSE, idempotent |-> FALSE, code |-> code, message |-> message]
Accept == [valid |-> TRUE, idempotent |-> FALSE, code |-> "", message |-> ""]
IdempotentNoop == [valid |-> TRUE, idempotent |-> TRUE, code |-> "", message |-> ""]

\* validateInduct testing the status before the warehouse.
validateInduct_StatusFirst(pkg, warehouseFound) ==
    IF pkg.status = "ABSENT" THEN Reject("NOT_FOUND", "Package not found")
    ELSE IF pkg.status = "INDUCTED" THEN IdempotentNoop
    ELSE IF pkg.status # "PENDING" THEN Reject("INVALID_STATE", "Cannot induct")
    ELSE IF ~warehouseFound THEN Reject("NOT_FOUND", "Warehouse not found")
    ELSE Accept

\* validateInduct answering INVALID_STATE for an already INDUCTED package.
validateInduct_RejectsInducted(pkg, warehouseFound) ==
    IF pkg.status = "ABSENT" THEN Reject("NOT_FOUND", "Package not found")
    ELSE IF ~warehouseFound THEN Reject("NOT_FOUND", "Warehouse not found")
    ELSE IF pkg.status # "PENDING" THEN Reject("INVALID_STATE", "Cannot induct")
    ELSE Accept

\* validateInduct with `idempotent: true` forgotten for an INDUCTED package.
validateInduct_NoIdempotentFlag(pkg, warehouseFound) ==
    IF pkg.status = "ABSENT" THEN Reject("NOT_FOUND", "Package not found")
    ELSE IF ~warehouseFound THEN Reject("NOT_FOUND", "Warehouse not found")
    ELSE IF pkg.status = "INDUCTED" THEN Accept
    ELSE IF pkg.status # "PENDING" THEN Reject("INVALID_STATE", "Cannot induct")
    ELSE Accept

\* validateInduct with the PENDING test left out.
validateInduct_NoStateTest(pkg, warehouseFound) ==
    IF pkg.status = "ABSENT" THEN Reject("NOT_FOUND", "Package not found")
    ELSE IF ~warehouseFound THEN Reject("NOT_FOUND", "Warehouse not found")
    ELSE IF pkg.status = "INDUCTED" THEN IdempotentNoop
    ELSE Accept

\* validateInduct with the warehouse lookup left out.
validateInduct_NoWarehouseTest(pkg, warehouseFound) ==
    IF pkg.status = "ABSENT" THEN Reject("NOT_FOUND", "Package not found")
    ELSE IF pkg.status = "INDUCTED" THEN IdempotentNoop
    ELSE IF pkg.status # "PENDING" THEN Reject("INVALID_STATE", "Cannot induct")
    ELSE Accept

\* validateInduct(packageId, warehouseId), on the rows its two reads return.
validateInduct(pkg, warehouseFound) ==
    IF pkg.status = "ABSENT" THEN Reject("NOT_FOUND", "Package not found")
    ELSE IF ~warehouseFound THEN Reject("NOT_FOUND", "Warehouse not found")
    ELSE IF pkg.status = "INDUCTED" THEN IdempotentNoop
    ELSE IF pkg.status # "PENDING" THEN Reject("INVALID_STATE", "Cannot induct")
    ELSE Accept

\* stowDecision with the INDUCTED test left out.
stowDecision_NoStateTest(pkg, palletId) ==
    IF pkg.status = "ABSENT" THEN Reject("NOT_FOUND", "Package not found")
    ELSE IF pkg.status = "STOWED" /\ pkg.palletId = palletId THEN IdempotentNoop
    ELSE IF pkg.palletId # Null /\ pkg.palletId # palletId
         THEN Reject("CONFLICT", "Package already stowed on another pallet")
    ELSE Accept

\* stowDecision without the `continue` for a package already on the pallet.
stowDecision_NoIdempotentSkip(pkg, palletId) ==
    IF pkg.status = "ABSENT" THEN Reject("NOT_FOUND", "Package not found")
    ELSE IF pkg.status # "INDUCTED"
         THEN Reject("INVALID_STATE", "Package not in INDUCTED state")
    ELSE IF pkg.palletId # Null /\ pkg.palletId # palletId
         THEN Reject("CONFLICT", "Package already stowed on another pallet")
    ELSE Accept

\* The per-package decision of validateStow's loop body, on the row read.
stowDecision(pkg, palletId) ==
    IF pkg.status = "ABSENT" THEN Reject("NOT_FOUND", "Package not found")
    ELSE IF pkg.status = "STOWED" /\ pkg.palletId = palletId THEN IdempotentNoop
    ELSE IF pkg.status # "INDUCTED"
         THEN Reject("INVALID_STATE", "Package not in INDUCTED state")
    ELSE IF pkg.palletId # Null /\ pkg.palletId # palletId
         THEN Reject("CONFLICT", "Package already stowed on another pallet")
    ELSE Accept

\* ------------------------------------------------- transition coordinator

\* createError(field, message, code)
createError(field, message, code) ==
    [field |-> field, message |-> message, code |-> code]

\* The field a rejected induct names in its error.
inductErrorField(v) ==
    IF v.message = "Package not found" THEN "packageId"
    ELSE IF v.message = "Warehouse not found" THEN "warehouseId"
    ELSE "status"

Success(attempts, written) ==
    [success |-> TRUE, errors |-> <<>>, written |-> written,
     attempts |-> attempts, fault |-> FALSE, pallet |-> NoSnapshot]
Failure(attempts, errors, written) ==
    [success |-> FALSE, errors |-> errors, written |-> written,
     attempts |-> attempts, fault |-> FALSE, pallet |-> NoSnapshot]

\* StowResult.pallet listing only the packages this call has written.
Stowed_WrittenOnly(attempts, written, rows, plt) ==
    [Success(attempts, written) EXCEPT
        !.pallet = [p \in written |-> rows[p]]]

\* The StowResult of a successful stow: the pallet with its packages as the
\* table `rows` (the store after the call's last write) has them.
Stowed(attempts, written, rows, plt) ==
    [Success(attempts, written) EXCEPT !.pallet = palletPackages(rows, plt)]

\* The induct-one operations: a single induct and an item of inductPackages.
InductOps == {"induct", "inductBatch"}

\* inductPackages with each result put in front of the earlier ones.
Collect_Prepends(c, k, result) ==
    LET results == <<[packageId |-> k.packageId, result |-> result]>>
                       \o k.results
        sc == k.successCount + (IF result.success THEN 1 ELSE 0)
        fc == k.failureCount + (IF result.success THEN 0 ELSE 1)
    IN  IF k.idx < Len(k.items)
        THEN call' = [call EXCEPT ![c] =
                        [k EXCEPT !.pc = "read", !.idx = k.idx + 1,
                                  !.packageId = k.items[k.idx + 1].packageId,
                                  !.warehouseId = k.items[k.idx + 1].warehouseId,
                                  !.at = k.items[k.idx + 1].receivedAt,
                                  !.attempt = 1, !.expected = 0,
                                  !.results = results,
                                  !.successCount = sc, !.failureCount = fc]]
        ELSE call' = [call EXCEPT ![c] =
                        [IdleCall EXCEPT !.pc = "done", !.op = k.op,
                                         !.items = k.items,
                                         !.results = results,
                                         !.successCount = sc,
                                         !.failureCount = fc]]

\* inductPackages counting every collected result as a success.
Collect_CountsAllAsSuccess(c, k, result) ==
    LET results == Append(k.results,
                          [packageId |-> k.packageId, result |-> result])
        sc == k.successCount + 1
        fc == k.failureCount
    IN  IF k.idx < Len(k.items)
        THEN call' = [call EXCEPT ![c] =
                        [k EXCEPT !.pc = "read", !.idx = k.idx + 1,
                                  !.packageId = k.items[k.idx + 1].packageId,
                                  !.warehouseId = k.items[k.idx + 1].warehouseId,
                                  !.at = k.items[k.idx + 1].receivedAt,
                                  !.attempt = 1, !.expected = 0,
                                  !.results = results,
                                  !.successCount = sc, !.failureCount = fc]]
        ELSE call' = [call EXCEPT ![c] =
                        [IdleCall EXCEPT !.pc = "done", !.op = k.op,
                                         !.items = k.items,
                                         !.results = results,
                                         !.successCount = sc,
                                         !.failureCount = fc]]

\* inductPackages giving up at the first item that fails.
Collect_StopsOnFailure(c, k, result) ==
    LET results == Append(k.results,
                          [packageId |-> k.packageId, result |-> result])
        sc == k.successCount + (IF result.success THEN 1 ELSE 0)
        fc == k.failureCount + (IF result.success THEN 0 ELSE 1)
    IN  IF k.idx < Len(k.items) /\ result.success
        THEN call' = [call EXCEPT ![c] =
                        [k EXCEPT !.pc = "read", !.idx = k.idx + 1,
                                  !.packageId = k.items[k.idx + 1].packageId,
                                  !.warehouseId = k.items[k.idx + 1].warehouseId,
                                  !.at = k.items[k.idx + 1].receivedAt,
                                  !.attempt = 1, !.expected = 0,
                                  !.results = results,
                                  !.successCount = sc, !.failureCount = fc]]
        ELSE call' = [call EXCEPT ![c] =
                        [IdleCall EXCEPT !.pc = "done", !.op = k.op,
                                         !.items = k.items,
                                         !.results = results,
                                         !.successCount = sc,
                                         !.failureCount = fc]]

\* inductPackages, the loop's tail: collect the item's result, count it, and
\* go on to the next input whether the item failed or not; after the last
\* one return the InductBatchResult.
Collect(c, k, result) ==
    LET results == Append(k.results,
                          [packageId |-> k.packageId, result |-> result])
        sc == k.successCount + (IF result.success THEN 1 ELSE 0)
        fc == k.failureCount + (IF result.success THEN 0 ELSE 1)
    IN  IF k.idx < Len(k.items)
        THEN call' = [call EXCEPT ![c] =
                        [k EXCEPT !.pc = "read", !.idx = k.idx + 1,
                                  !.packageId = k.items[k.idx + 1].packageId,
                                  !.warehouseId = k.items[k.idx + 1].warehouseId,
                                  !.at = k.items[k.idx + 1].receivedAt,
                                  !.attempt = 1, !.expected = 0,
                                  !.results = results,
                                  !.successCount = sc, !.failureCount = fc]]
        ELSE call' = [call EXCEPT ![c] =
                        [IdleCall EXCEPT !.pc = "done", !.op = k.op,
                                         !.items = k.items,
                                         !.results = results,
                                         !.successCount = sc,
                                         !.failureCount = fc]]

\* The call `k` of caller c returns `result`: its working state is gone, the
\* request and the response are with the caller. Inside inductPackages the
\* result goes to the batch instead.
Return(c, k, result) ==
    IF k.op = "inductBatch" THEN Collect(c, k, result)
    ELSE
    call' = [call EXCEPT ![c] =
               [IdleCall EXCEPT !.pc = "done",
                                !.op = k.op, !.packageId = k.packageId,
                                !.warehouseId = k.warehouseId,
                                !.palletId = k.palletId,
                                !.packageIds = k.packageIds, !.at = k.at,
                                !.again = k.again, !.first = k.first,
                                !.result = result]]

\* The caller has read the response and is free to send anything next.
Receive(c) ==
    /\ call[c].pc = "done"
    /\ call' = [call EXCEPT ![c] = IdleCall]
    /\ UNCHANGED <<packages, pallets>>

\* induct: read package and warehouse, decide; on Accept go on to the write.
InductDecide(c, k) ==
    LET pkg == findPackage(k.packageId)
        v == validateInduct(pkg, warehouseExists(k.warehouseId))
    IN  IF ~v.valid
        THEN Return(c, k, Failure(k.attempt,
                 <<createError(inductErrorField(v), v.message, v.code)>>, {}))
        ELSE IF v.idempotent
        THEN Return(c, k, Success(k.attempt, {}))
        ELSE call' = [call EXCEPT ![c] =
                        [k EXCEPT !.pc = "write", !.expected = pkg.version]]

\* A request inductPackage(packageId, warehouseId, receivedAt?) arrives and
\* makes its first reads.
StartInduct(c, Inputs) ==
    /\ call[c].pc = "idle"
    /\ \E in \in Inputs :
          InductDecide(c, [IdleCall EXCEPT !.op = "induct",
                                           !.packageId = in.packageId,
                                           !.warehouseId = in.warehouseId,
                                           !.at = in.receivedAt,
                                           !.attempt = 1])
    /\ UNCHANGED <<packages, pallets>>

\* The caller sends the induct request it has just had answered once more
\* (same packageId and warehouseId); `first` keeps the first answer's success.
RepeatInduct(c, Ats) ==
    /\ call[c].pc = "done" /\ call[c].op = "induct"
    /\ \E at \in Ats :
          InductDecide(c, [IdleCall EXCEPT !.op = "induct",
                                           !.packageId = call[c].packageId,
                                           !.warehouseId = call[c].warehouseId,
                                           !.at = at,
                                           !.attempt = 1,
                                           !.again = TRUE,
                                           !.first = call[c].result.success])
    /\ UNCHANGED <<packages, pallets>>

\* induct: the read and decision of the next inductPackages item, and the
\* re-read and re-decision after a lost conditional write.
InductRetry(c) ==
    /\ call[c].op \in InductOps /\ call[c].pc = "read"
    /\ InductDecide(c, call[c])
    /\ UNCHANGED <<packages, pallets>>

\* InductWrite stamping the server clock whatever receivedAt was supplied.
InductWrite_StampsNow(c) ==
    /\ call[c].op \in InductOps /\ call[c].pc = "write"
    /\ LET k == call[c]
           data == [status |-> "INDUCTED", inductedAt |-> Now]
       IN  IF rowsAffected(k.packageId, k.expected) = 1
           THEN /\ packages' = updateWithVersion(k.packageId, data, k.expected)
                /\ Return(c, k, Success(k.attempt, {k.packageId}))
           ELSE /\ UNCHANGED packages
                /\ IF k.attempt < MaxAttempts
                   THEN call' = [call EXCEPT ![c] =
                                   [k EXCEPT !.pc = "read",
                                             !.attempt = k.attempt + 1]]
                   ELSE Return(c, k, Failure(k.attempt,
                            <<createError("packageId", "Version conflict",
                                          "CONFLICT")>>, {}))
    /\ UNCHANGED pallets

\* InductWrite retrying after every lost write, however many came before.
InductWrite_RetriesUnbounded(c) ==
    /\ call[c].op \in InductOps /\ call[c].pc = "write"
    /\ LET k == call[c]
           data == [status |-> "INDUCTED",
                    inductedAt |-> IF k.at = NoTime THEN Now ELSE k.at]
       IN  IF rowsAffected(k.packageId, k.expected) = 1
           THEN /\ packages' = updateWithVersion(k.packageId, data, k.expected)
                /\ Return(c, k, Success(k.attempt, {k.packageId}))
           ELSE /\ UNCHANGED packages
                /\ call' = [call EXCEPT ![c] =
                                [k EXCEPT !.pc = "read",
                                          !.attempt = k.attempt + 1]]
    /\ UNCHANGED pallets

\* induct: the conditional write; zero rows -> one retry of the whole
\* decision, then CONFLICT.
InductWrite(c) ==
    /\ call[c].op \in InductOps /\ call[c].pc = "write"
    /\ LET k == call[c]
           data == [status |-> "INDUCTED",
                    inductedAt |-> IF k.at = NoTime THEN Now ELSE k.at]
       IN  IF rowsAffected(k.packageId, k.expected) = 1
           THEN /\ packages' = updateWithVersion(k.packageId, data, k.expected)
                /\ Return(c, k, Success(k.attempt, {k.packageId}))
           ELSE /\ UNCHANGED packages
                /\ IF k.attempt < MaxAttempts
                   THEN call' = [call EXCEPT ![c] =
                                   [k EXCEPT !.pc = "read",
                                             !.attempt = k.attempt + 1]]
                   ELSE Return(c, k, Failure(k.attempt,
                            <<createError("packageId", "Version conflict",
                                          "CONFLICT")>>, {}))
    /\ UNCHANGED pallets

\* The ids of todo entries.
TodoIds(todo) == {todo[i].id : i \in 1..Len(todo)}

\* NotApplied leaving the packages not yet written out of the report.
NotApplied_Unreported(todo, i) == <<>>

\* NOT_APPLIED for every package of the write pass after position i.
NotApplied(todo, i) ==
    [j \in 1..(Len(todo) - i) |->
        createError(todo[i + j].id, "Not applied", "NOT_APPLIED")]

\* stow, write phase entered (or left at once when nothing is to be written).
StowBeginWrites(c, k) ==
    IF k.todo = <<>>
    THEN Return(c, k, Stowed(k.attempt, {}, packages, k.palletId))
    ELSE call' = [call EXCEPT ![c] =
                    [k EXCEPT !.pc = "write", !.idx = 1, !.attempt = 1]]

\* validateStow step 2 answering an id it has met before with an error.
StowValidateStep_RejectsRepeated(c, k) ==
    LET id == k.packageIds[k.idx]
        pkg == findPackage(id)
        v == IF \E i \in 1..(k.idx - 1) : k.packageIds[i] = id
             THEN Reject("VALIDATION_FAILED", "Repeated package")
             ELSE stowDecision(pkg, k.palletId)
        todo == IF v.idempotent \/ id \in TodoIds(k.todo) THEN k.todo
                ELSE Append(k.todo, [id |-> id, version |-> pkg.version])
    IN  IF ~v.valid
        THEN Return(c, k, Failure(k.attempt,
                 <<createError(id, v.message, v.code)>>, {}))
        ELSE IF k.idx < Len(k.packageIds)
        THEN call' = [call EXCEPT ![c] =
                        [k EXCEPT !.pc = "validate", !.idx = k.idx + 1,
                                  !.todo = todo]]
        ELSE StowBeginWrites(c, [k EXCEPT !.todo = todo])

\* validateStow step 2 whose rejection reaches the caller without its error.
StowValidateStep_DropsError(c, k) ==
    LET id == k.packageIds[k.idx]
        pkg == findPackage(id)
        v == stowDecision(pkg, k.palletId)
        todo == IF v.idempotent \/ id \in TodoIds(k.todo) THEN k.todo
                ELSE Append(k.todo, [id |-> id, version |-> pkg.version])
    IN  IF ~v.valid
        THEN Return(c, k, Failure(k.attempt, <<>>, {}))
        ELSE IF k.idx < Len(k.packageIds)
        THEN call' = [call EXCEPT ![c] =
                        [k EXCEPT !.pc = "validate", !.idx = k.idx + 1,
                                  !.todo = todo]]
        ELSE StowBeginWrites(c, [k EXCEPT !.todo = todo])

\* validateStow step 2, one iteration: read packageIds[idx] and decide. The
\* first rejected package ends the validation with its error.
StowValidateStep(c, k) ==
    LET id == k.packageIds[k.idx]
        pkg == findPackage(id)
        v == stowDecision(pkg, k.palletId)
        todo == IF v.idempotent \/ id \in TodoIds(k.todo) THEN k.todo
                ELSE Append(k.todo, [id |-> id, version |-> pkg.version])
    IN  IF ~v.valid
        THEN Return(c, k, Failure(k.attempt,
                 <<createError(id, v.message, v.code)>>, {}))
        ELSE IF k.idx < Len(k.packageIds)
        THEN call' = [call EXCEPT ![c] =
                        [k EXCEPT !.pc = "validate", !.idx = k.idx + 1,
                                  !.todo = todo]]
        ELSE StowBeginWrites(c, [k EXCEPT !.todo = todo])

\* A request stowPackages(palletId, packageIds, stowedAt?) arrives and
\* validateStow step 1 looks the pallet up, whatever the list holds.
StartStow(c, Inputs) ==
    /\ call[c].pc = "idle"
    /\ \E in \in Inputs :
         LET k == [IdleCall EXCEPT !.op = "stow", !.palletId = in.palletId,
                                   !.packageIds = in.packageIds,
                                   !.at = in.stowedAt,
                                   !.idx = 1, !.attempt = 1]
         IN  call' = [call EXCEPT ![c] =
                        [k EXCEPT !.pc = IF palletExists(in.palletId)
                                         THEN "validate" ELSE "create"]]
    /\ UNCHANGED <<packages, pallets>>

\* validateStow step 1 going on without the pallet row having been inserted.
StowCreatePallet_NoInsert(c) ==
    /\ call[c].op = "stow" /\ call[c].pc = "create"
    /\ IF palletExists(call[c].palletId)
       THEN /\ Return(c, call[c], Fault)
            /\ UNCHANGED pallets
       ELSE /\ UNCHANGED pallets
            /\ call' = [call EXCEPT ![c] = [@ EXCEPT !.pc = "validate"]]
    /\ UNCHANGED packages

\* validateStow step 1, second half: palletRepo.create({ id: palletId }) after
\* findById returned nothing. A row with that id inserted in between makes the
\* insert fail on the primary key, and the call ends in a thrown fault.
StowCreatePallet(c) ==
    /\ call[c].op = "stow" /\ call[c].pc = "create"
    /\ IF palletExists(call[c].palletId)
       THEN /\ Return(c, call[c], Fault)
            /\ UNCHANGED pallets
       ELSE /\ pallets' = pallets \cup {call[c].palletId}
            /\ call' = [call EXCEPT ![c] = [@ EXCEPT !.pc = "validate"]]
    /\ UNCHANGED packages

\* validateStow step 2: the loop over packageIds, which an empty list leaves
\* at once with { valid: true }.
StowValidate(c) ==
    /\ call[c].op = "stow" /\ call[c].pc = "validate"
    /\ IF call[c].packageIds = <<>>
       THEN StowBeginWrites(c, call[c])
       ELSE StowValidateStep(c, call[c])
    /\ UNCHANGED <<packages, pallets>>

\* After todo[idx] is settled: the next write, or the successful return with
\* the pallet as the store `rows` now has it.
StowAdvance(c, k, written, rows) ==
    IF k.idx < Len(k.todo)
    THEN call' = [call EXCEPT ![c] =
                    [k EXCEPT !.pc = "write", !.idx = k.idx + 1,
                              !.attempt = 1, !.written = written]]
    ELSE Return(c, k, Stowed(k.attempt, written, rows, k.palletId))

\* stow step 3: the conditional write of todo[idx]; zero rows -> re-read and
\* re-decide once, then CONFLICT for it and NOT_APPLIED for the rest.
StowWrite(c) ==
    /\ call[c].op = "stow" /\ call[c].pc = "write"
    /\ LET k == call[c]
           t == k.todo[k.idx]
           data == [status |-> "STOWED", palletId |-> k.palletId,
                    stowedAt |-> IF k.at = NoTime THEN Now ELSE k.at]
       IN  IF rowsAffected(t.id, t.version) = 1
           THEN /\ packages' = updateWithVersion(t.id, data, t.version)
                /\ StowAdvance(c, k, k.written \cup {t.id},
                               updateWithVersion(t.id, data, t.version))
           ELSE /\ UNCHANGED packages
                /\ IF k.attempt < MaxAttempts
                   THEN call' = [call EXCEPT ![c] =
                                   [k EXCEPT !.pc = "reread",
                                             !.attempt = k.attempt + 1]]
                   ELSE Return(c, k, Failure(k.attempt,
                            <<createError(t.id, "Version conflict",
                                          "CONFLICT")>>
                                \o NotApplied(k.todo, k.idx), k.written))
    /\ UNCHANGED pallets

\* stow: the re-read and re-decision of todo[idx] after its lost write.
StowRetry(c) ==
    /\ call[c].op = "stow" /\ call[c].pc = "reread"
    /\ LET k == call[c]
           t == k.todo[k.idx]
           pkg == findPackage(t.id)
           v == stowDecision(pkg, k.palletId)
       IN  IF ~v.valid
           THEN Return(c, k, Failure(k.attempt,
                    <<createError(t.id, v.message, v.code)>>
                        \o NotApplied(k.todo, k.idx), k.written))
           ELSE IF v.idempotent
           THEN StowAdvance(c, k, k.written, packages)
           ELSE call' = [call EXCEPT ![c] =
                           [k EXCEPT !.pc = "write",
                                     !.todo[k.idx].version = pkg.version]]
    /\ UNCHANGED <<packages, pallets>>

\* ------------------------------------------------------- specifications

\* Every request a client can send, within the bounds.
IdLists == UNION {[1..n -> PackageIds] : n \in 0..MaxLen}
InductInputs ==
    [packageId : PackageIds, warehouseId : WarehouseIds, receivedAt : OptTimes]
StowInputs ==
    [palletId : PalletIds, packageIds : IdLists, stowedAt : OptTimes]

\* The requests of the concurrent specification: the seeded packages and
\* warehouse, timestamps left to the server clock.
RaceLists == UNION {[1..n -> Packages] : n \in 1..MaxLen}
RaceInductInputs ==
    [packageId : Packages, warehouseId : Warehouses, receivedAt : {NoTime}]
RaceStowInputs ==
    [palletId : PalletIds, packageIds : RaceLists, stowedAt : {NoTime}]

\* Concurrent callers on the seeded store.
Next ==
    \E c \in Callers :
        \/ StartInduct(c, RaceInductInputs)
        \/ InductRetry(c)
        \/ InductWrite(c)
        \/ StartStow(c, RaceStowInputs)
        \/ StowCreatePallet(c)
        \/ StowValidate(c)
        \/ StowWrite(c)
        \/ StowRetry(c)
        \/ Receive(c)

Spec == Init /\ [][Next]_vars

\* A store some earlier operations (stage and pick included) have left: every
\* package at any point of the workflow, its columns as that point leaves them.
SeedRow(status, plt) ==
    [status |-> status,
     palletId |-> IF Rank(status) >= 3 THEN plt ELSE Null,
     inductedAt |-> IF Rank(status) >= 2 THEN 1 ELSE NoTime,
     stowedAt |-> IF Rank(status) >= 3 THEN 1 ELSE NoTime,
     version |-> Rank(status) - 1]

SeedPallet == "PLT-001"

InitAny ==
    /\ \E st \in [Packages -> {PackageStatus[i] : i \in 1..Len(PackageStatus)}] :
         /\ packages = [p \in Packages |-> SeedRow(st[p], SeedPallet)]
         /\ pallets = {SeedPallet : p \in {q \in Packages : Rank(st[q]) >= 3}}
    /\ call = [c \in Callers |-> IdleCall]

\* One caller at a time: each call runs alone, so no conditional write is lost.
SeqCaller == "c1"

NextSeq ==
    \/ StartInduct(SeqCaller, InductInputs)
    \/ InductWrite(SeqCaller)
    \/ StartStow(SeqCaller, StowInputs)
    \/ StowCreatePallet(SeqCaller)
    \/ StowValidate(SeqCaller)
    \/ StowWrite(SeqCaller)
    \/ Receive(SeqCaller)
    \/ RepeatInduct(SeqCaller, OptTimes)

SpecSeq == InitAny /\ [][NextSeq]_vars

\* Another writer of the packages table (a worker outside these calls) updates
\* row p through the same versioned UPDATE, leaving the workflow columns alone.
OtherWrite(p) ==
    /\ packages[p].version < MaxVersion
    /\ packages' = updateWithVersion(p, [status |-> packages[p].status],
                                     packages[p].version)
    /\ UNCHANGED <<pallets, call>>

\* One caller contending with other writers for the rows it works on.
NextContend ==
    \/ StartInduct(SeqCaller, RaceInductInputs)
    \/ InductRetry(SeqCaller)
    \/ InductWrite(SeqCaller)
    \/ StartStow(SeqCaller, RaceStowInputs)
    \/ StowCreatePallet(SeqCaller)
    \/ StowValidate(SeqCaller)
    \/ StowWrite(SeqCaller)
    \/ StowRetry(SeqCaller)
    \/ Receive(SeqCaller)
    \/ \E p \in Packages : OtherWrite(p)

SpecContend == Init /\ [][NextContend]_vars

\* A request inductPackages(inputs) arrives.
StartInductBatch(c, Inputs) ==
    /\ call[c].pc = "idle"
    /\ \E items \in Inputs :
          call' = [call EXCEPT ![c] =
                     IF items = <<>>
                     THEN [IdleCall EXCEPT !.pc = "done", !.op = "inductBatch"]
                     ELSE [IdleCall EXCEPT !.op = "inductBatch", !.pc = "read",
                                           !.items = items, !.idx = 1,
                                           !.packageId = items[1].packageId,
                                           !.warehouseId = items[1].warehouseId,
                                           !.at = items[1].receivedAt,
                                           !.attempt = 1]]
    /\ UNCHANGED <<packages, pallets>>

\* The inputs of a batch scan session: timestamps left to the server clock.
BatchItems ==
    [packageId : PackageIds, warehouseId : WarehouseIds, receivedAt : {NoTime}]
BatchInputs == UNION {[1..n -> BatchItems] : n \in 0..MaxBatch}

\* One caller sending batches to a store at any point of the workflow.
NextBatch ==
    \/ StartInductBatch(SeqCaller, BatchInputs)
    \/ InductRetry(SeqCaller)
    \/ InductWrite(SeqCaller)
    \/ Receive(SeqCaller)

SpecBatch == InitAny /\ [][NextBatch]_vars

\* ----------------------------------------------------------------- health

\* The keys isHealthy is called with; the controller passes 'database'.
HealthKeys == {"database", "prisma"}

\* What `await this.prisma.$queryRaw\`SELECT 1\`` comes to: it resolves, or it
\* throws an Error with a message, or it throws a value that is no Error (a
\* string, or an object that has a message property of its own).
ProbeOutcomes ==
    {[kind |-> "resolved", message |-> Null],
     [kind |-> "Error", message |-> "Connection refused"],
     [kind |-> "Error", message |-> ""],
     [kind |-> "string", message |-> Null],
     [kind |-> "object", message |-> "Connection refused"]}

\* indicator.up() and indicator.down({ message }) of check(key).
up(key) == [rejected |-> FALSE, key |-> key, status |-> "up", message |-> Null]
down(key, message) ==
    [rejected |-> FALSE, key |-> key, status |-> "down", message |-> message]
\* The promise of isHealthy rejected with what the probe threw.
Rejected(key, probe) ==
    [rejected |-> TRUE, key |-> key, status |-> Null, message |-> probe.message]

\* isHealthy without its try/catch.
isHealthy_NoCatch(key, probe) ==
    IF probe.kind = "resolved" THEN up(key) ELSE Rejected(key, probe)

\* PrismaHealthIndicator.isHealthy(key), on the outcome of its probe query.
isHealthy(key, probe) ==
    IF probe.kind = "resolved"
    THEN up(key)
    ELSE LET message == IF probe.kind = "Error" THEN probe.message
                        ELSE "Unknown error"
         IN  down(key, message)

\* GET /health: the controller calls isHealthy, which sends the probe query.
StartHealthCheck(c) ==
    /\ call[c].pc = "idle"
    /\ \E key \in HealthKeys :
          call' = [call EXCEPT ![c] =
                     [IdleCall EXCEPT !.op = "isHealthy", !.pc = "probe",
                                      !.key = key]]
    /\ UNCHANGED <<packages, pallets>>

\* The probe query settles and isHealthy returns.
ProbeSettles(c) ==
    /\ call[c].op = "isHealthy" /\ call[c].pc = "probe"
    /\ \E probe \in ProbeOutcomes :
          call' = [call EXCEPT ![c] =
                     [IdleCall EXCEPT !.op = "isHealthy", !.pc = "done",
                                      !.key = call[c].key, !.probe = probe,
                                      !.health = isHealthy(call[c].key, probe)]]
    /\ UNCHANGED <<packages, pallets>>

\* Clients polling the health endpoint while the database comes and goes.
NextHealth ==
    \E c \in Callers :
        \/ StartHealthCheck(c)
        \/ ProbeSettles(c)
        \/ Receive(c)

SpecHealth == Init /\ [][NextHealth]_vars

\* ------------------------------------------------------------ properties

\* A returned call of caller c, and what it was.
Returned(c, op) == call[c].pc = "done" /\ call[c].op = op
Codes(result) == {result.errors[i].code : i \in DOMAIN result.errors}

\* The row a caller at its conditional write addresses, and the version it
\* expects there.
WriteTarget(k) == IF k.op \in InductOps THEN k.packageId ELSE k.todo[k.idx].id
WriteExpected(k) == IF k.op \in InductOps THEN k.expected ELSE k.todo[k.idx].version

\* C1: under any interleaving of induct and stow calls a package's status
\* never changes except to the immediate successor in
\* PENDING -> INDUCTED -> STOWED -> STAGED -> PICKED.
C1_StatusStepsToSuccessor ==
    [][\A p \in Packages :
          \/ packages'[p].status = packages[p].status
          \/ Rank(packages'[p].status) = Rank(packages[p].status) + 1]_vars

\* C1 witness: a package has gone through both transitions of this core.
C1_Witness ==
    \E p \in Packages, c \in Callers :
        /\ packages[p].status = "STOWED"
        /\ Returned(c, "stow") /\ p \in call[c].result.written

C3_VersionGuard ==
    [][/\ \A p \in Packages :
             \/ packages'[p] = packages[p]
             \/ packages'[p].version = packages[p].version + 1
       /\ \A c \in Callers :
             (call[c].pc = "write" /\ call'[c] # call[c])
             => IF packages[WriteTarget(call[c])].version
                      = WriteExpected(call[c])
                THEN packages'[WriteTarget(call[c])].version
                         = WriteExpected(call[c]) + 1
                ELSE packages' = packages]_vars

\* C3 witness: a conditional write has been refused (the caller is on its
\* second attempt) while the row moved on.
C3_Witness ==
    \E c \in Callers :
        /\ call[c].pc \in {"read", "reread"} /\ call[c].attempt = 2
        /\ packages[WriteTarget(call[c])].version > WriteExpected(call[c])

SeqStarts(op) ==
    /\ call[SeqCaller].pc \in {"idle", "done"}
    /\ call'[SeqCaller].pc # "idle"
    /\ call'[SeqCaller] # call[SeqCaller]
    /\ call'[SeqCaller].op = op

\* C4 as stated: for every package, an induct call sent twice with the same
\* packageId and warehouseId returns success both times and the second call
\* leaves the stored record as the first left it.
C4_AsStated ==
    [][LET k2 == call'[SeqCaller]
       IN  (/\ SeqStarts("induct") /\ k2.again
            /\ k2.packageId \in Packages /\ k2.warehouseId \in Warehouses)
           => /\ k2.first
              /\ k2.pc = "done" /\ k2.result.success
              /\ packages' = packages]_vars

\* C4, amended: for every package that is PENDING or INDUCTED (so INDUCTED
\* once the first call has returned) and an existing warehouse, an induct call
\* sent twice with the same packageId and warehouseId returns success both
\* times, and the second call leaves status, inductedAt and version as the
\* first left them.
C4_InductIdempotent ==
    [][LET k2 == call'[SeqCaller]
       IN  (/\ SeqStarts("induct") /\ k2.again
            /\ k2.packageId \in Packages /\ k2.warehouseId \in Warehouses
            /\ packages[k2.packageId].status = "INDUCTED")
           => /\ k2.first
              /\ k2.pc = "done" /\ k2.result.success
              /\ k2.result.written = {}
              /\ packages' = packages]_vars

\* C4 witness: a repeated induct, with another receivedAt, has returned
\* success on a package an earlier induct call stamped with the server clock.
C4_Witness ==
    /\ Returned(SeqCaller, "induct")
    /\ call[SeqCaller].again /\ call[SeqCaller].first
    /\ call[SeqCaller].result.success /\ call[SeqCaller].result.written = {}
    /\ call[SeqCaller].at \in Times
    /\ call[SeqCaller].packageId \in Packages
    /\ packages[call[SeqCaller].packageId].status = "INDUCTED"
    /\ packages[call[SeqCaller].packageId].inductedAt = Now

\* C5: inductedAt is written exactly once, by the step that takes the package
\* from PENDING to INDUCTED; no later induct or stow call changes it.
C5_InductedAtWrittenOnce ==
    [][\A p \in Packages :
          /\ packages'[p].inductedAt # packages[p].inductedAt
             => /\ packages[p].inductedAt = NoTime
                /\ packages[p].status = "PENDING"
                /\ packages'[p].status = "INDUCTED"
          /\ (packages[p].status = "PENDING" /\ packages'[p].status = "INDUCTED")
             => packages'[p].inductedAt # NoTime]_vars

\* C5 witness: a package inducted on the server clock and later stowed with a
\* client's timestamp still carries its inductedAt.
C5_Witness ==
    \E p \in Packages :
        /\ packages[p].status = "STOWED"
        /\ packages[p].inductedAt = Now
        /\ packages[p].stowedAt \in Times
        /\ Returned(SeqCaller, "induct") /\ call[SeqCaller].packageId = p
        /\ call[SeqCaller].at \in Times

\* C6: induct of a STOWED, STAGED or PICKED package, the warehouse existing,
\* returns at once with success=false and the one error INVALID_STATE, and the
\* table is left as it was.
C6_InductRejectsLaterStates ==
    [][LET k2 == call'[SeqCaller]
       IN  (/\ SeqStarts("induct")
            /\ k2.packageId \in Packages /\ k2.warehouseId \in Warehouses
            /\ packages[k2.packageId].status \in {"STOWED", "STAGED", "PICKED"})
           => /\ k2.pc = "done"
              /\ ~k2.result.success
              /\ Len(k2.result.errors) = 1
              /\ k2.result.errors[1].code = "INVALID_STATE"
              /\ k2.result.written = {}
              /\ packages' = packages]_vars

\* C6 witness: an induct of a PICKED package has been rejected.
C6_Witness ==
    /\ Returned(SeqCaller, "induct")
    /\ call[SeqCaller].packageId \in Packages
    /\ call[SeqCaller].warehouseId \in Warehouses
    /\ packages[call[SeqCaller].packageId].status = "PICKED"
    /\ Codes(call[SeqCaller].result) = {"INVALID_STATE"}

\* C7: induct of a packageId that does not exist returns NOT_FOUND on field
\* packageId; induct of an existing package with a warehouseId that does not
\* exist returns NOT_FOUND on field warehouseId; neither writes anything.
C7_InductNotFound ==
    [][LET k2 == call'[SeqCaller]
           missing == IF k2.packageId \notin Packages THEN "packageId"
                      ELSE "warehouseId"
       IN  (/\ SeqStarts("induct")
            /\ k2.packageId \notin Packages \/ k2.warehouseId \notin Warehouses)
           => /\ k2.pc = "done"
              /\ ~k2.result.success
              /\ Len(k2.result.errors) = 1
              /\ k2.result.errors[1].code = "NOT_FOUND"
              /\ k2.result.errors[1].field = missing
              /\ k2.result.written = {}
              /\ packages' = packages]_vars

\* C7 witness: an existing package was inducted at a warehouse that does not
\* exist.
C7_Witness ==
    /\ Returned(SeqCaller, "induct")
    /\ call[SeqCaller].packageId \in Packages
    /\ call[SeqCaller].warehouseId = MissingWarehouse
    /\ Len(call[SeqCaller].result.errors) = 1
    /\ call[SeqCaller].result.errors[1].field = "warehouseId"

\* A package that fails stow validation for pallet plt: missing, in a status
\* other than INDUCTED (and not already stowed on plt), or on another pallet.
FailsStow(id, plt) ==
    \/ id \notin Packages
    \/ /\ id \in Packages
       /\ \/ packages[id].status \notin {"INDUCTED", "STOWED"}
          \/ packages[id].status = "STOWED" /\ packages[id].palletId # plt
          \/ packages[id].palletId \notin {Null, plt}

FailingIds(k) ==
    {k.packageIds[i] : i \in {j \in DOMAIN k.packageIds :
                                 FailsStow(k.packageIds[j], k.palletId)}}

C9_OneErrorPerFailingPackage ==
    (/\ Returned(SeqCaller, "stow")
     /\ call[SeqCaller].packageIds # <<>>
     /\ ~call[SeqCaller].result.fault
     /\ ~call[SeqCaller].result.success)
    => Len(call[SeqCaller].result.errors) = Cardinality(FailingIds(call[SeqCaller]))

\* C11: every package a stow call writes is, by that write, STOWED on the
\* call's pallet with stowedAt set and its version one above the version the
\* call read; and every package a returned stow reports as stowed is STOWED on
\* that pallet with stowedAt set.
C11_StowedPackageFields ==
    [][\A c \in Callers :
          /\ (call[c].op = "stow" /\ call[c].pc = "write"
                 /\ call'[c] # call[c] /\ packages' # packages)
             => LET t == call[c].todo[call[c].idx]
                IN  /\ packages'[t.id].status = "STOWED"
                    /\ packages'[t.id].palletId = call[c].palletId
                    /\ packages'[t.id].stowedAt # NoTime
                    /\ packages'[t.id].version = t.version + 1
                    /\ packages'[t.id].version = packages[t.id].version + 1
          /\ (call'[c].op = "stow" /\ call'[c].pc = "done")
             => \A p \in call'[c].result.written :
                   /\ packages'[p].status = "STOWED"
                   /\ packages'[p].palletId = call'[c].palletId
                   /\ packages'[p].stowedAt # NoTime]_vars

\* C11 witness: a stow of two packages has returned success with both
\* written, each at version 2.
C11_Witness ==
    \E c \in Callers :
        /\ Returned(c, "stow") /\ call[c].result.success
        /\ call[c].result.written = Packages
        /\ \A p \in Packages : packages[p].version = 2

\* C12: a stow whose list starts with a package that is STOWED on a pallet
\* other than the target returns success=false with code CONFLICT for it, and
\* the package stays on its pallet.
C12_StowedElsewhereIsConflict ==
    \A p \in Packages :
        (/\ Returned(SeqCaller, "stow")
         /\ call[SeqCaller].packageIds # <<>>
         /\ call[SeqCaller].packageIds[1] = p
         /\ packages[p].status = "STOWED"
         /\ packages[p].palletId # call[SeqCaller].palletId)
        => /\ ~call[SeqCaller].result.success
           /\ Len(call[SeqCaller].result.errors) >= 1
           /\ call[SeqCaller].result.errors[1].code = "CONFLICT"

\* Package id is STOWED on pallet plt.
StowedOn(id, plt) ==
    /\ id \in Packages
    /\ packages[id].status = "STOWED" /\ packages[id].palletId = plt

\* C13: stowing a package that is already STOWED on the target pallet is a
\* no-op: its validation passes without a write being planned for it, no step
\* of the call changes its row (version, palletId, stowedAt), and a call
\* naming only that package returns success=true with nothing written.
C13_StowSamePalletNoop ==
    [][LET k == call[SeqCaller]
           k2 == call'[SeqCaller]
       IN  /\ (/\ k.op = "stow" /\ k.pc = "validate" /\ k2 # k
               /\ k.packageIds # <<>>
               /\ StowedOn(k.packageIds[k.idx], k.palletId))
              => /\ packages' = packages
                 /\ k.packageIds[k.idx] \notin TodoIds(k2.todo)
                 /\ k2.pc = "done" => k2.result.success
                 /\ Len(k.packageIds) = 1
                    => k2.pc = "done" /\ k2.result.written = {}
           /\ \A i \in DOMAIN k.packageIds :
                 (/\ k.op = "stow" /\ k.pc \notin {"idle", "done"}
                  /\ StowedOn(k.packageIds[i], k.palletId))
                 => packages'[k.packageIds[i]] = packages[k.packageIds[i]]]_vars

\* C13 witness: a stow naming one package, already STOWED on the target
\* pallet by an earlier stow, has returned success with nothing written.
C13_Witness ==
    /\ Returned(SeqCaller, "stow")
    /\ Len(call[SeqCaller].packageIds) = 1
    /\ StowedOn(call[SeqCaller].packageIds[1], call[SeqCaller].palletId)
    /\ call[SeqCaller].palletId # SeedPallet
    /\ call[SeqCaller].result.success
    /\ call[SeqCaller].result.written = {}

\* C14: a stow reaching a package whose status is PENDING, STAGED or PICKED,
\* whatever its palletId, ends there with success=false and the one error
\* INVALID_STATE; one reaching a packageId that does not exist ends there with
\* the one error NOT_FOUND.
C14_StowRejections ==
    [][LET k == call[SeqCaller]
           k2 == call'[SeqCaller]
           id == k.packageIds[k.idx]
           code == IF id \notin Packages THEN "NOT_FOUND" ELSE "INVALID_STATE"
       IN  (/\ k.op = "stow" /\ k.pc = "validate" /\ k2 # k
            /\ k.packageIds # <<>>
            /\ \/ id \notin Packages
               \/ /\ id \in Packages
                  /\ packages[id].status \in {"PENDING", "STAGED", "PICKED"})
           => /\ k2.pc = "done"
              /\ ~k2.result.success
              /\ Len(k2.result.errors) = 1
              /\ k2.result.errors[1].code = code
              /\ packages' = packages]_vars

\* C14 witness: a stow onto the pallet a STAGED package is on has been
\* rejected with INVALID_STATE for that package.
C14_Witness ==
    /\ Returned(SeqCaller, "stow")
    /\ Len(call[SeqCaller].packageIds) = 1
    /\ call[SeqCaller].packageIds[1] \in Packages
    /\ packages[call[SeqCaller].packageIds[1]].status = "STAGED"
    /\ packages[call[SeqCaller].packageIds[1]].palletId = call[SeqCaller].palletId
    /\ Codes(call[SeqCaller].result) = {"INVALID_STATE"}

\* C15: in every reachable state, those between the writes of a multi-package
\* stow included, a package's palletId is set if and only if its status is
\* STOWED, STAGED or PICKED.
C15_PalletIdIffStowed ==
    \A p \in Packages :
        packages[p].palletId # Null
            <=> packages[p].status \in {"STOWED", "STAGED", "PICKED"}

\* C15 witness: a stow is between its first and its second write.
C15_Witness ==
    \E c \in Callers :
        /\ call[c].op = "stow" /\ call[c].pc = "write" /\ call[c].idx = 2
        /\ packages[call[c].todo[1].id].palletId = call[c].palletId
        /\ packages[call[c].todo[2].id].palletId = Null

\* Steps one package's conditional write can still take: write, re-read,
\* write again.
WriteSteps(k) ==
    IF k.pc \in {"read", "reread"} THEN 2 * (MaxAttempts - k.attempt) + 2
    ELSE 2 * (MaxAttempts - k.attempt) + 1

\* An upper bound on the steps call k has left before it returns.
StepsLeft(k) ==
    LET perWrite == 2 * MaxAttempts
    IN  IF k.pc \in {"idle", "done"} THEN 0
        ELSE IF k.op = "induct" THEN WriteSteps(k)
        ELSE IF k.pc = "create"
             THEN Len(k.packageIds) * (perWrite + 1) + 1
        ELSE IF k.pc = "validate"
             THEN Len(k.packageIds) * perWrite
                      + (Len(k.packageIds) - k.idx + 1)
        ELSE (Len(k.todo) - k.idx) * perWrite + WriteSteps(k)

\* The caller's conditional write in this step affects zero rows.
LosesWrite(c) ==
    /\ call[c].pc = "write" /\ call'[c] # call[c]
    /\ packages[WriteTarget(call[c])].version # WriteExpected(call[c])

InductSucceeded(item) ==
    /\ item.packageId \in Packages
    /\ item.warehouseId \in Warehouses
    /\ packages[item.packageId].status = "INDUCTED"

\* C20: inductBatch returns as many results as it was given inputs, and
\* results[i] is the result of inducting input[i]: it names input[i]'s
\* package and succeeds exactly if that induct did; while the batch runs, the
\* results so far are those of the inputs before the current one, in order.
C20_BatchResultsInInputOrder ==
    LET k == call[SeqCaller]
    IN  k.op = "inductBatch"
        => /\ k.pc = "done" => Len(k.results) = Len(k.items)
           /\ k.pc # "done" => Len(k.results) = k.idx - 1
           /\ \A i \in DOMAIN k.results :
                 /\ k.results[i].packageId = k.items[i].packageId
                 /\ k.results[i].result.success <=> InductSucceeded(k.items[i])

\* C20 witness: a batch of two different packages has returned, the first
\* inducted by it and the second rejected.
C20_Witness ==
    LET k == call[SeqCaller]
    IN  /\ Returned(SeqCaller, "inductBatch")
        /\ Len(k.items) = 2 /\ Len(k.results) = 2
        /\ k.items[1].packageId # k.items[2].packageId
        /\ k.results[1].result.written = {k.items[1].packageId}
        /\ ~k.results[2].result.success

\* What a standalone induct of input `item` returns on the store as it
\* stands: whether it succeeds, and the error code and field when it does not.
InductOutcome(item) ==
    IF item.packageId \notin Packages
    THEN [success |-> FALSE, code |-> "NOT_FOUND", field |-> "packageId"]
    ELSE IF item.warehouseId \notin Warehouses
    THEN [success |-> FALSE, code |-> "NOT_FOUND", field |-> "warehouseId"]
    ELSE IF packages[item.packageId].status \in {"PENDING", "INDUCTED"}
    THEN [success |-> TRUE, code |-> "none", field |-> "none"]
    ELSE [success |-> FALSE, code |-> "INVALID_STATE", field |-> "status"]

\* The step of a running batch that collects the result of its current item.
CollectsItem(k, k2) ==
    /\ k.op = "inductBatch" /\ k.pc \in {"read", "write"}
    /\ Len(k2.results) = Len(k.results) + 1

\* C21: in inductBatch one item's failure never affects another: the item
\* after a failed one is still processed and the returned batch has a result
\* for every input; a package inducted by an earlier item stays INDUCTED; and
\* the result collected for an item is the one a standalone induct returns on
\* the store the preceding items left. So [valid, valid, non-existent] gives
\* successCount = 2, failureCount = 1 and NOT_FOUND in results[2] (0-based).
C21_BatchItemsIndependent ==
    [][LET k  == call[SeqCaller]
           k2 == call'[SeqCaller]
       IN  /\ \A p \in Packages :
                packages[p].status = "INDUCTED"
                => packages'[p].status = "INDUCTED"
           /\ CollectsItem(k, k2)
              => LET item == k.items[k.idx]
                     r    == k2.results[Len(k2.results)].result
                     o    == InductOutcome(item)
                 IN  /\ r.success = o.success
                     /\ ~o.success
                        => /\ Len(r.errors) = 1
                           /\ r.errors[1].code = o.code
                           /\ r.errors[1].field = o.field
                           /\ packages' = packages
                     /\ o.success
                        => /\ r.errors = <<>>
                           /\ packages'[item.packageId].status = "INDUCTED"
                     /\ k.idx < Len(k.items)
                        => k2.pc = "read" /\ k2.idx = k.idx + 1
                     /\ k.idx = Len(k.items)
                        => k2.pc = "done" /\ Len(k2.results) = Len(k2.items)
           /\ (k2.op = "inductBatch" /\ k2.pc = "done" /\ k.pc # "done"
               /\ Len(k2.items) = 3
               /\ k2.results[1].result.success
               /\ k2.results[2].result.success
               /\ k2.items[3].packageId = MissingPackage)
              => /\ k2.successCount = 2
                 /\ k2.failureCount = 1
                 /\ k2.results[3].result.errors[1].code = "NOT_FOUND"]_vars

\* C21 witness: a batch of three has returned whose first item inducted its
\* package, whose second item failed on a non-existent package, and whose
\* third item inducted another package: two successes around one failure.
C21_Witness ==
    LET k == call[SeqCaller]
    IN  /\ Returned(SeqCaller, "inductBatch")
        /\ Len(k.results) = 3
        /\ k.results[1].result.written = {k.items[1].packageId}
        /\ k.items[2].packageId = MissingPackage
        /\ "NOT_FOUND" \in Codes(k.results[2].result)
        /\ k.results[3].result.written = {k.items[3].packageId}
        /\ k.successCount = 2 /\ k.failureCount = 1

\* C22: in an inductBatch result successCount is the number of results with
\* success = true, failureCount the number with success = false, and the two
\* add up to the number of inputs.
C22_BatchCounts ==
    LET k == call[SeqCaller]
    IN  Returned(SeqCaller, "inductBatch")
        => /\ k.successCount =
                Cardinality({i \in DOMAIN k.results : k.results[i].result.success})
           /\ k.failureCount =
                Cardinality({i \in DOMAIN k.results : ~k.results[i].result.success})
           /\ k.successCount + k.failureCount = Len(k.items)

\* C22 witness: a batch of three has returned with one success and two
\* failures.
C22_Witness ==
    LET k == call[SeqCaller]
    IN  /\ Returned(SeqCaller, "inductBatch")
        /\ Len(k.items) = 3
        /\ k.successCount = 1 /\ k.failureCount = 2
        /\ k.results[2].result.success

\* C23: every rejected induct or stow returns success = false with a
\* non-empty errors list, each error carrying a message; and no returned
\* result, whatever the call, has success = false with an empty errors list.
C23_RejectionCarriesErrors ==
    [][LET k  == call[SeqCaller]
           k2 == call'[SeqCaller]
           rejected ==
               IF k2.op = "induct"
               THEN ~InductOutcome([packageId |-> k2.packageId,
                                    warehouseId |-> k2.warehouseId]).success
               ELSE FailingIds(k2) # {}
       IN  (k2.pc = "done" /\ k2 # k /\ k2.op \in {"induct", "stow"})
           => /\ rejected => ~k2.result.success
              /\ ~k2.result.success
                 => /\ k2.result.errors # <<>>
                    /\ \A i \in DOMAIN k2.result.errors :
                          /\ k2.result.errors[i].message # ""
                          /\ k2.result.errors[i].code # ""]_vars

\* C23 witness: a stow naming a missing package after a good one has been
\* rejected with its error.
C23_Witness ==
    LET k == call[SeqCaller]
    IN  /\ Returned(SeqCaller, "stow")
        /\ Len(k.packageIds) = 2
        /\ k.packageIds[2] = MissingPackage
        /\ ~k.result.success
        /\ Len(k.result.errors) = 1
        /\ k.result.errors[1].code = "NOT_FOUND"

\* The elements of a list of ids.
Range(ids) == {ids[i] : i \in DOMAIN ids}

\* C24: a stow call is never rejected because its pallet does not exist: a
\* stow that finds no pallet goes on to create it; the creation of an absent
\* pallet inserts a record with the requested id and the call proceeds to the
\* validation of its packages; the errors of a rejected stow name one of its
\* packages, never the pallet; and when a stow returns success the pallet
\* record exists.
C24_MissingPalletIsCreated ==
    [][\A c \in Callers :
          LET k  == call[c]
              k2 == call'[c]
          IN  /\ (k.pc = "idle" /\ k2.op = "stow"
                  /\ k2.palletId \notin pallets)
                 => k2.pc = "create"
              /\ (k.op = "stow" /\ k.pc = "create" /\ k2 # k
                  /\ k.palletId \notin pallets)
                 => /\ pallets' = pallets \cup {k.palletId}
                    /\ k2.pc = "validate"
                    /\ k2.palletId = k.palletId
              /\ (k2.pc = "done" /\ k2 # k /\ k2.op = "stow")
                 => /\ \A i \in DOMAIN k2.result.errors :
                          k2.result.errors[i].field
                              \in Range(k2.packageIds)
                    /\ k2.result.success => k2.palletId \in pallets'
              /\ pallets \subseteq pallets']_vars

\* C24 witness: on a store that began without pallets, a stow has returned
\* success with a package written and its pallet is on record.
C24_Witness ==
    \E c \in Callers :
        /\ Returned(c, "stow")
        /\ call[c].result.success
        /\ call[c].result.written # {}
        /\ call[c].palletId \in pallets

\* C25: implicit pallet creation is a single idempotent operation: a stow
\* call that found no pallet and goes to create it obtains the pallet and
\* proceeds to validation, also when a concurrent stow naming the same pallet
\* has created it in between; no stow call ends in a fault of the creation.
C25_PalletCreationIdempotent ==
    [][\A c \in Callers :
          LET k  == call[c]
              k2 == call'[c]
          IN  (k.op = "stow" /\ k.pc = "create" /\ k2 # k)
              => /\ k2.pc = "validate"
                 /\ k2.palletId \in pallets'
                 /\ ~k2.result.fault]_vars

\* C26: a package is never moved between pallets: once its palletId is set, no
\* step of any induct or stow call changes it to another pallet or back to
\* null.
C26_PalletIdNeverChanges ==
    [][\A p \in Packages :
          packages[p].palletId # Null
          => packages'[p].palletId = packages[p].palletId]_vars

\* C26 witness: a package sits on one pallet and a stow call that asked to put
\* it on another pallet has returned rejected.
C26_Witness ==
    \E p \in Packages, c \in Callers :
        /\ packages[p].palletId # Null
        /\ Returned(c, "stow")
        /\ p \in Range(call[c].packageIds)
        /\ call[c].palletId # packages[p].palletId
        /\ ~call[c].result.success /\ ~call[c].result.fault

\* The ids a stow list names more than once.
RepeatedIds(ids) ==
    {ids[i] : i \in {j \in DOMAIN ids : \E h \in DOMAIN ids : h # j /\ ids[h] = ids[j]}}

C28_EmptyListRejected ==
    [][LET k  == call[SeqCaller]
           k2 == call'[SeqCaller]
       IN  (k2.op = "stow" /\ k2.packageIds = <<>> /\ k2 # k)
           => /\ packages' = packages
              /\ k2.pc = "done"
                 => /\ ~k2.result.success
                    /\ "VALIDATION_FAILED" \in Codes(k2.result)]_vars

\* C29: every call of induct or stow completes with a structured result and
\* never ends in a thrown fault: a returned call carries either success = true
\* or success = false with its errors, whatever the inputs, the store and the
\* other caller did.
C29_NoThrownFault ==
    \A c \in Callers :
        (call[c].pc = "done" /\ call[c].op \in {"induct", "stow"})
        => /\ ~call[c].result.fault
           /\ call[c].result.success \/ call[c].result.errors # <<>>

\* C30: induct tests package existence, then warehouse existence, then the
\* status: with both ids missing it reports only NOT_FOUND on packageId, and
\* for a package already INDUCTED or STOWED (or later) with a non-existent
\* warehouse it reports NOT_FOUND on warehouseId, neither the idempotent
\* success nor INVALID_STATE; the store is left as it was.
C30_InductCheckOrder ==
    [][LET k  == call[SeqCaller]
           k2 == call'[SeqCaller]
           r  == k2.result
       IN  (k2.pc = "done" /\ k2 # k /\ k2.op = "induct")
           => /\ (k2.packageId \notin Packages /\ k2.warehouseId \notin Warehouses)
                 => /\ ~r.success
                    /\ Len(r.errors) = 1
                    /\ r.errors[1].code = "NOT_FOUND"
                    /\ r.errors[1].message = "Package not found"
                    /\ r.errors[1].field = "packageId"
              /\ (/\ k2.packageId \in Packages
                  /\ k2.warehouseId \notin Warehouses
                  /\ packages[k2.packageId].status # "PENDING")
                 => /\ ~r.success
                    /\ Len(r.errors) = 1
                    /\ r.errors[1].code = "NOT_FOUND"
                    /\ r.errors[1].message = "Warehouse not found"
                    /\ r.errors[1].field = "warehouseId"
                    /\ packages' = packages]_vars

\* C30 witness: an induct of an already INDUCTED package with a non-existent
\* warehouse has returned NOT_FOUND on warehouseId.
C30_Witness ==
    LET k == call[SeqCaller]
    IN  /\ Returned(SeqCaller, "induct")
        /\ k.packageId \in Packages
        /\ packages[k.packageId].status = "INDUCTED"
        /\ k.warehouseId = MissingWarehouse
        /\ ~k.result.success
        /\ k.result.errors[1].field = "warehouseId"

Transitions(s) ==
    IF s = "PENDING" THEN 0 ELSE IF s = "INDUCTED" THEN 1 ELSE 2

\* C32: for packages seeded PENDING at version 0, in every reachable state the
\* version is the number of transitions the package has undergone: 0 while
\* PENDING, 1 while INDUCTED, 2 while STOWED; a step that does not change the
\* status (an idempotent or rejected decision, a lost write) leaves the
\* version, and a returning call that wrote nothing has advanced none.
C32_VersionCountsTransitions ==
    [][/\ \A p \in Packages :
             /\ packages[p].version = Transitions(packages[p].status)
             /\ packages'[p].version = Transitions(packages'[p].status)
             /\ packages'[p].status = packages[p].status
                => packages'[p].version = packages[p].version
       /\ \A c \in Callers :
             (call'[c].pc = "done" /\ call'[c] # call[c]
              /\ call'[c].result.written = {})
             => packages' = packages]_vars

\* C32 witness: a package is STOWED at version 2 after an induct of it was
\* rejected with INVALID_STATE.
C32_Witness ==
    \E c \in Callers :
        /\ Returned(c, "induct")
        /\ Codes(call[c].result) = {"INVALID_STATE"}
        /\ call[c].result.attempts = 1
        /\ packages[call[c].packageId].status = "STOWED"
        /\ packages[call[c].packageId].version = 2

\* C33: a stow call whose packages all pass validation, some INDUCTED and
\* some already STOWED on the target pallet, succeeds and writes only the
\* INDUCTED ones: validation plans a write exactly for the INDUCTED packages,
\* no step of the call changes the row of an already-stowed package (version
\* and stowedAt included), each INDUCTED one is changed once, to STOWED on the
\* pallet at version + 1, and the call reports exactly the planned packages
\* as written.
C33_MixedListWritesInductedOnly ==
    [][LET k  == call[SeqCaller]
           k2 == call'[SeqCaller]
       IN  (k.op = "stow" /\ k.pc \notin {"idle", "done"} /\ k2 # k
            /\ k.packageIds # <<>> /\ FailingIds(k) = {})
           => /\ \A p \in Range(k.packageIds) :
                    IF StowedOn(p, k.palletId)
                    THEN packages'[p] = packages[p]
                    ELSE \/ packages'[p] = packages[p]
                         \/ /\ packages'[p].version = packages[p].version + 1
                            /\ packages'[p].status = "STOWED"
                            /\ packages'[p].palletId = k.palletId
              /\ k.pc = "validate"
                 => (k.packageIds[k.idx] \in TodoIds(k2.todo)
                     <=> packages[k.packageIds[k.idx]].status = "INDUCTED")
              /\ k2.pc = "done"
                 => /\ k2.result.success
                    /\ k2.result.written = TodoIds(k.todo)
                    /\ \A p \in Range(k.packageIds) :
                          /\ packages'[p].status = "STOWED"
                          /\ packages'[p].palletId = k.palletId]_vars

\* C33 witness: a stow of a package already STOWED on the target pallet
\* together with an INDUCTED one has returned success having written only the
\* second; the first still has the stowedAt and version it was seeded with.
C33_Witness ==
    LET k == call[SeqCaller]
    IN  /\ Returned(SeqCaller, "stow")
        /\ Len(k.packageIds) = 2
        /\ k.result.success
        /\ k.result.written = {k.packageIds[2]}
        /\ k.packageIds[1] # k.packageIds[2]
        /\ k.at = NoTime
        /\ packages[k.packageIds[1]] = SeedRow("STOWED", k.palletId)
        /\ packages[k.packageIds[2]].stowedAt = Now
        /\ packages[k.packageIds[2]].version = 2

\* C34: the pallet is created before the packages are validated: a stow that
\* finds no pallet inserts it while no package of its list has been looked at,
\* no package being on that pallet; a stow that then fails validation returns
\* success = false with the pallet record still in the store and no package
\* changed, so a pallet it created is left there without packages.
C34_PalletLeftAfterFailedStow ==
    [][LET k  == call[SeqCaller]
           k2 == call'[SeqCaller]
       IN  /\ (k.op = "stow" /\ k.pc = "create" /\ k2 # k)
              => /\ k.idx = 1 /\ k.todo = <<>>
                 /\ pallets' = pallets \cup {k.palletId}
                 /\ \A p \in Packages : packages[p].palletId # k.palletId
           /\ (k.op = "stow" /\ k.pc = "validate" /\ k2 # k)
              => k.palletId \in pallets
           /\ (k2.op = "stow" /\ k2.pc = "done" /\ k2 # k
               /\ ~k2.result.success)
              => /\ k2.palletId \in pallets'
                 /\ pallets' = pallets
                 /\ packages' = packages]_vars

\* C34 witness: a stow naming a pallet the store was not seeded with has
\* returned success = false, and that pallet is on record with no package on it.
C34_Witness ==
    LET k == call[SeqCaller]
    IN  /\ Returned(SeqCaller, "stow")
        /\ ~k.result.success
        /\ k.palletId # SeedPallet
        /\ k.palletId \in pallets
        /\ \A p \in Packages : packages[p].palletId # k.palletId

\* C35: an accepted transition records the caller's timestamp: the write of
\* an accepted induct stores receivedAt as inductedAt when it was supplied and
\* the current time when it was not, and leaves stowedAt; the write of an
\* accepted stow does the same with the supplied stowedAt, and leaves
\* inductedAt.
C35_SuppliedTimestampStored ==
    [][LET k  == call[SeqCaller]
           k2 == call'[SeqCaller]
       IN  /\ (k.op = "induct" /\ k.pc = "write" /\ k2 # k)
              => /\ k.at \in Times => packages'[k.packageId].inductedAt = k.at
                 /\ k.at \notin Times => packages'[k.packageId].inductedAt = Now
                 /\ packages'[k.packageId].stowedAt = packages[k.packageId].stowedAt
                 /\ k2.result.written = {k.packageId}
           /\ (k.op = "stow" /\ k.pc = "write" /\ k2 # k)
              => LET id == k.todo[k.idx].id
                 IN  /\ k.at \in Times => packages'[id].stowedAt = k.at
                     /\ k.at \notin Times => packages'[id].stowedAt = Now
                     /\ packages'[id].inductedAt = packages[id].inductedAt
                     /\ packages'[id].status = "STOWED"]_vars

\* C35 witness: a stow with a supplied stowedAt has returned having written a
\* package that an induct without receivedAt had stamped with the current
\* time: the row holds the supplied stowedAt and the defaulted inductedAt.
C35_Witness ==
    LET k == call[SeqCaller]
    IN  /\ Returned(SeqCaller, "stow")
        /\ k.at \in Times
        /\ \E p \in k.result.written :
              /\ packages[p].stowedAt = k.at
              /\ packages[p].inductedAt = Now

\* C36: the pallet snapshot a successful stow returns lists exactly the
\* packages whose stored palletId is that pallet's id, each as the store has
\* it: every package the call names is in it with status STOWED and that
\* palletId, and so are the packages earlier calls put on the pallet.
C36_PalletSnapshot ==
    [][LET k  == call[SeqCaller]
           k2 == call'[SeqCaller]
           snapshot == k2.result.pallet
       IN  (k2.op = "stow" /\ k2.pc = "done" /\ k2 # k /\ k2.result.success)
           => /\ DOMAIN snapshot
                    = {p \in Packages : packages'[p].palletId = k2.palletId}
              /\ \A p \in DOMAIN snapshot :
                    /\ snapshot[p] = packages'[p]
                    /\ snapshot[p].palletId = k2.palletId
                    /\ snapshot[p].status \in {"STOWED", "STAGED", "PICKED"}
              /\ \A p \in Range(k2.packageIds) :
                    /\ p \in DOMAIN snapshot
                    /\ snapshot[p].status = "STOWED"
              /\ \A p \in Packages :
                    (packages[p].palletId = k2.palletId) => p \in DOMAIN snapshot]_vars

\* C36 witness: a stow onto a pallet the store was not seeded with has
\* returned success having written one package, and its snapshot also holds
\* the package an earlier stow put on that pallet.
C36_Witness ==
    LET k == call[SeqCaller]
    IN  /\ Returned(SeqCaller, "stow")
        /\ k.result.success
        /\ k.palletId # SeedPallet
        /\ Cardinality(k.result.written) = 1
        /\ DOMAIN k.result.pallet = Packages
        /\ \A p \in Packages : k.result.pallet[p].status = "STOWED"

\* C37: PrismaHealthIndicator.isHealthy never propagates a database fault:
\* whatever the probe query does, the call returns a result; it is the
\* indicator's up result when the probe succeeds, and the down result when the
\* probe throws, carrying the message of the thrown Error, or 'Unknown error'
\* when what was thrown is no Error.
C37_HealthNeverThrows ==
    [][\A c \in Callers :
          LET k  == call[c]
              k2 == call'[c]
          IN  (k.op = "isHealthy" /\ k.pc = "probe" /\ k2 # k)
              => /\ k2.pc = "done"
                 /\ ~k2.health.rejected
                 /\ k2.health.key = k.key
                 /\ k2.probe.kind = "resolved"
                    => k2.health.status = "up" /\ k2.health.message = Null
                 /\ k2.probe.kind = "Error"
                    => /\ k2.health.status = "down"
                       /\ k2.health.message = k2.probe.message
                 /\ k2.probe.kind \notin {"resolved", "Error"}
                    => /\ k2.health.status = "down"
                       /\ k2.health.message = "Unknown error"]_vars

\* C37 witness: one health check has returned down with the message of the
\* Error its probe threw while another has returned down with 'Unknown error'
\* for a thrown object that is no Error.
C37_Witness ==
    /\ Returned("c1", "isHealthy") /\ Returned("c2", "isHealthy")
    /\ call["c1"].probe = [kind |-> "Error", message |-> "Connection refused"]
    /\ call["c1"].health = down(call["c1"].key, "Connection refused")
    /\ call["c2"].probe.kind = "object"
    /\ call["c2"].health = down(call["c2"].key, "Unknown error")

====
